---- MODULE Spec2Model ----
(***************************************************************************)
(* Model of the CORS proxy worker of src/index.ts: handleRequest,          *)
(* handleOptions, handleLiveWebProxy, fetchWithRedirCheck, addCORSHeaders  *)
(* and notFound.                                                           *)
(*                                                                         *)
(* Strings are sequences of one-character strings, so that the regular     *)
(* expressions, split, slice and startsWith of the source are computed     *)
(* character by character.  A header that is absent (Headers.get returns   *)
(* null) is NULL; the empty string is << >>.                               *)
(***************************************************************************)
EXTENDS Integers, Sequences, FiniteSets

\* ------------------------------------------------------------------------
\* Strings
\* ------------------------------------------------------------------------

\* null / undefined: a value no string of characters equals
NULL == <<"null">>

\* JavaScript truthiness of a string-or-null: `if (v)`
Truthy(v) == v # NULL /\ v # << >>

Digits == {"0", "1", "2", "3", "4", "5", "6", "7", "8", "9"}

\* String.prototype.startsWith
StartsWith(s, p) == Len(s) >= Len(p) /\ SubSeq(s, 1, Len(p)) = p

\* does p occur in s at index i (1-based)
OccursAt(s, p, i) == i >= 1 /\ i + Len(p) - 1 <= Len(s) /\ SubSeq(s, i, i + Len(p) - 1) = p

\* String.prototype.slice(n) for 0 <= n
Slice(s, n) == SubSeq(s, n + 1, Len(s))

\* smallest element of a non-empty set of integers
Least(S) == CHOOSE i \in S : \A j \in S : i <= j

\* Number.prototype.toString for n >= 0
DigitOf(d) == <<"0", "1", "2", "3", "4", "5", "6", "7", "8", "9">>[d + 1]

RECURSIVE NumToString(_)
NumToString(n) == IF n < 10 THEN <<DigitOf(n)>> ELSE NumToString(n \div 10) \o <<DigitOf(n % 10)>>

\* ------------------------------------------------------------------------
\* URL helpers
\* ------------------------------------------------------------------------

\* index of the first occurrence of p in s at or after index from, 0 if none
IndexFrom(s, p, from) ==
    LET hits == {i \in from..Len(s) : OccursAt(s, p, i)}
    IN  IF hits = {} THEN 0 ELSE Least(hits)

\* request.url.replace(/(https?:\/)([^/])/, "$1/$2"): the leftmost "http:/" or
\* "https:/" that is followed by a character other than "/" gets a second "/"
SlashFixAt(s, i) ==
    \/ OccursAt(s, <<"h", "t", "t", "p", "s", ":", "/">>, i) /\ i + 7 <= Len(s) /\ s[i + 7] # "/"
    \/ OccursAt(s, <<"h", "t", "t", "p", ":", "/">>, i) /\ i + 6 <= Len(s) /\ s[i + 6] # "/"

FixSingleSlash(s) ==
    LET hits == {i \in 1..Len(s) : SlashFixAt(s, i)}
    IN  IF hits = {} THEN s
        ELSE LET i == Least(hits)
                 k == IF s[i + 4] = "s" THEN i + 6 ELSE i + 5   \* index of the "/" of $1
             IN  SubSeq(s, 1, k) \o <<"/">> \o SubSeq(s, k + 1, Len(s))

\* TS_URL = /([\d]+)id_\/(https?:.*)/ : String.prototype.match, leftmost match.
\* [\d]+ is greedy and is followed by "i", so group 1 is a maximal run of digits.
DigitRunEnd(s, i) == Least({j \in i..Len(s) : j = Len(s) \/ s[j + 1] \notin Digits})

TsMatchAt(s, i) ==
    /\ s[i] \in Digits
    /\ LET e == DigitRunEnd(s, i)
       IN  /\ OccursAt(s, <<"i", "d", "_", "/", "h", "t", "t", "p">>, e + 1)
           /\ \/ OccursAt(s, <<":">>, e + 9)
              \/ OccursAt(s, <<"s", ":">>, e + 9)

NoMatch == [ok |-> FALSE, ts |-> NULL, url |-> NULL]

TS_URL(s) ==
    LET hits == {i \in 1..Len(s) : TsMatchAt(s, i)}
    IN  IF s = NULL \/ hits = {} THEN NoMatch
        ELSE LET i == Least(hits)
                 e == DigitRunEnd(s, i)
             IN  [ok |-> TRUE, ts |-> SubSeq(s, i, e), url |-> SubSeq(s, e + 5, Len(s))]

\* new URL(s) for the http and https schemes: the slashes after the scheme are
\* skipped, the host runs to the next "/", "?" or "#", an empty host or any other
\* input is a TypeError (ok = FALSE)
InvalidURL == [ok |-> FALSE, origin |-> NULL, pathname |-> NULL]

SchemeLen(s) ==
    IF StartsWith(s, <<"h", "t", "t", "p", "s", ":">>) THEN 6
    ELSE IF StartsWith(s, <<"h", "t", "t", "p", ":">>) THEN 5
    ELSE 0

URL(s) ==
    LET n    == SchemeLen(s)
        rest == {i \in (n + 1)..Len(s) : s[i] # "/"}
        h    == IF rest = {} THEN Len(s) + 1 ELSE Least(rest)             \* host start
        ends == {i \in h..Len(s) : s[i] \in {"/", "?", "#"}}
        he   == IF ends = {} THEN Len(s) + 1 ELSE Least(ends)             \* one past the host
        cuts == {i \in he..Len(s) : s[i] \in {"?", "#"}}
        pe   == IF cuts = {} THEN Len(s) + 1 ELSE Least(cuts)             \* one past the path
    IN  IF s = NULL \/ n = 0 \/ he = h THEN InvalidURL
        ELSE [ok       |-> TRUE,
              origin   |-> SubSeq(s, 1, n) \o <<"/", "/">> \o SubSeq(s, h, he - 1),
              pathname |-> IF pe = he THEN <<"/">> ELSE SubSeq(s, he, pe - 1)]

\* url.split(sep, 2)[1]: the second piece, NULL when there is none (undefined)
SplitSecond(s, sep) ==
    IF sep = << >>
    THEN IF Len(s) >= 2 THEN <<s[2]>> ELSE NULL
    ELSE LET first == IndexFrom(s, sep, 1)
         IN  IF first = 0 THEN NULL
             ELSE LET start == first + Len(sep)
                      next  == IndexFrom(s, sep, start)
                  IN  IF next = 0 THEN SubSeq(s, start, Len(s))
                      ELSE SubSeq(s, start, next - 1)

\* ------------------------------------------------------------------------
\* Program constants
\* ------------------------------------------------------------------------

\* CORS_ALLOWED_ORIGINS
LocalOrigin10001 == <<"h", "t", "t", "p", ":", "/", "/", "l", "o", "c", "a", "l", "h", "o", "s", "t", ":", "1", "0", "0", "0", "1">>
LocalOrigin8000  == <<"h", "t", "t", "p", ":", "/", "/", "l", "o", "c", "a", "l", "h", "o", "s", "t", ":", "8", "0", "0", "0">>
LocalOrigin3000  == <<"h", "t", "t", "p", ":", "/", "/", "l", "o", "c", "a", "l", "h", "o", "s", "t", ":", "3", "0", "0", "0">>
ProxyTestOrigin  == <<"h", "t", "t", "p", "s", ":", "/", "/", "p", "r", "o", "x", "y", "-", "t", "e", "s", "t", ".", "s", "l", "a", "x", ".", "d", "e", "v">>
CORS_ALLOWED_ORIGINS == {LocalOrigin10001, LocalOrigin8000, LocalOrigin3000, ProxyTestOrigin}

\* "/proxy/"
ProxyPrefix == <<"/", "p", "r", "o", "x", "y", "/">>

\* the statuses handleLiveWebProxy reports as a redirect
RedirectStatuses == {301, 302, 303, 307, 308}

\* `Sorry, this page was not found or could not be loaded: (Error ${status})`
ErrorBody(status) ==
    <<"Sorry, this page was not found or could not be loaded: (Error ">> \o NumToString(status) \o <<")">>

\* JSON.stringify({ error: err })
JsonError(err) == <<"{\"error\":\"">> \o err \o <<"\"}">>

\* ------------------------------------------------------------------------
\* Inputs: the requests a client may send and the responses an upstream may give
\* ------------------------------------------------------------------------

\* the count of fetches stops growing here
MaxFetches == 2

HTTPS == <<"h", "t", "t", "p", "s", ":">>
HTTP  == <<"h", "t", "t", "p", ":">>

\* the worker's own host and the start of every request.url
ProxyHost == <<"w">>
Self == HTTPS \o <<"/", "/">> \o ProxyHost

PageA     == HTTPS \o <<"/", "/", "s", "/", "a">>                     \* https://s/a
PageB     == HTTPS \o <<"/", "/", "s", "/", "b">>                     \* https://s/b
PlainB    == HTTP \o <<"/", "/", "s", "/", "b">>                      \* http://s/b
Capture1A == HTTPS \o <<"/", "/", "t", "/", "1", "i", "d", "_", "/">> \o PageA
Capture2A == HTTPS \o <<"/", "/", "t", "/", "2", "0", "i", "d", "_", "/">> \o PageA
Capture2B == HTTPS \o <<"/", "/", "t", "/", "2", "0", "i", "d", "_", "/">> \o PageB

RequestURLs ==
    { Self \o ProxyPrefix \o PageA,                                     \* a plain target
      Self \o ProxyPrefix \o PageA \o <<"?", "q", "=", "1">>,           \* with a query string
      Self \o ProxyPrefix \o <<"/", "/", "s", "/", "a">>,               \* protocol-relative
      Self \o ProxyPrefix \o HTTPS \o <<"/", "s", "/", "a">>,           \* https:/s/a
      Self \o ProxyPrefix \o Capture1A,                                 \* a timestamped capture
      Self \o ProxyPrefix \o PageA \o <<"?", "u", "=", "w", "/", "x">>, \* the query names the proxy host
      Self \o <<"/", "o">> }                                            \* not under /proxy/

Methods == {"GET", "POST", "OPTIONS"}

EvilOrigin == <<"h", "t", "t", "p", "s", ":", "/", "/", "e", "v", "i", "l", ".", "t", "e", "s", "t">>

ReqNames ==
    { "host", "origin", "cookie", "x-proxy-cookie", "x-proxy-referer", "x-proxy-user-agent",
      "x-owt-no-https", "cf-ray", "x-pywb-requested-with",
      "access-control-request-method", "access-control-request-headers" }

\* the values a client may give each header
HeaderValues(n) ==
    CASE n = "host"            -> {NULL, ProxyHost}
      [] n = "origin"          -> {NULL, << >>, LocalOrigin3000, EvilOrigin}
      [] n = "x-proxy-cookie"  -> {NULL, << >>, <<"s", "=", "1">>}
      [] n = "x-proxy-referer" -> {NULL, PageB, Capture2B, <<"x">>}
      [] n = "access-control-request-method" -> {NULL, <<"P", "U", "T">>}
      [] OTHER                 -> {NULL, <<"v">>}

\* the headers of a browser's preflight: on any other request the worker does
\* not read the two Access-Control-Request headers
BaseHeaders ==
    [n \in ReqNames |->
        IF n = "host" THEN ProxyHost
        ELSE IF n = "access-control-request-method" THEN <<"P", "U", "T">>
        ELSE IF n = "access-control-request-headers" THEN <<"v">>
        ELSE NULL]

\* the header sets of S, and those with one header added, changed or removed
ChangeHeader(S) ==
    S \cup UNION {{[h EXCEPT ![n] = v] : v \in HeaderValues(n)} : h \in S, n \in ReqNames}

\* the requests sent: those that differ from BaseHeaders in at most two headers
RequestHeaders == ChangeHeader(ChangeHeader({BaseHeaders}))

Requests ==
    [method : Methods, url : RequestURLs, headers : RequestHeaders, body : {<<"q">>}]

\* the response headers the worker reads, in the order Headers.keys() lists them
RespNameOrder ==
    <<"access-control-allow-origin", "content-encoding", "location", "memento-datetime", "set-cookie">>
RespNames == {RespNameOrder[i] : i \in 1..Len(RespNameOrder)}

Statuses == {200, 300, 301, 302, 304, 305, 404}

RespHeaderValues(n) ==
    CASE n = "location"         -> {NULL, << >>, PageB, PlainB, Capture2A, Capture2B}
      [] n = "memento-datetime" -> {NULL, << >>, <<"m">>}
      [] n = "access-control-allow-origin" -> {NULL, <<"*">>}
      [] OTHER                  -> {NULL, <<"v">>}

\* the responses received carry at most one of these headers
ResponseHeaders ==
    {[n \in RespNames |-> NULL]} \cup
    UNION {{[[m \in RespNames |-> NULL] EXCEPT ![n] = v] : v \in RespHeaderValues(n)} : n \in RespNames}

\* the reason phrase the upstream sends with a status
ReasonPhrase(status) ==
    CASE status = 200 -> <<"O", "K">>
      [] status = 404 -> <<"N", "o">>
      [] OTHER        -> <<"R">>

\* what fetch() resolves to: the location and ts properties are not set
Responses ==
    { [status |-> st, statusText |-> ReasonPhrase(st), headers |-> h,
       body |-> IF st = 304 THEN NULL ELSE <<"b">>,
       location |-> NULL, ts |-> NULL] : st \in Statuses, h \in ResponseHeaders }

\* ------------------------------------------------------------------------
\* The worker
\* ------------------------------------------------------------------------

\* the names of the headers of the outbound request
ProxyNames == ReqNames \cup {"referer", "sec-fetch-site", "user-agent"}

\* the names of the headers of a response of the worker
OutNames ==
    RespNames \cup
    { "x-proxy-set-cookie", "x-redirect-status", "x-redirect-statustext", "x-orig-location",
      "x-orig-ts", "access-control-allow-credentials", "access-control-expose-headers",
      "access-control-allow-method", "access-control-allow-headers", "allow", "content-type" }

NoHeaders == [n \in OutNames |-> NULL]

\* no response: fetch has not resolved, or handleRequest has not returned
NoResponse ==
    [status |-> 0, statusText |-> NULL, headers |-> [n \in RespNames |-> NULL], body |-> NULL,
     location |-> NULL, ts |-> NULL]
NoOut == [status |-> 0, statusText |-> NULL, headers |-> NoHeaders, body |-> NULL]

\* notFound(err, status)
notFound(err, status) ==
    [status     |-> status,
     statusText |-> << >>,
     headers    |-> [NoHeaders EXCEPT !["content-type"] = <<"application/json">>],
     body       |-> JsonError(err)]

\* handleOptions(request)
handleOptions(request) ==
    LET origin  == request.headers["origin"]
        method  == request.headers["access-control-request-method"]
        headers == request.headers["access-control-request-headers"]
    IN  IF /\ CORS_ALLOWED_ORIGINS # {}
           /\ Truthy(origin)
           /\ origin \notin CORS_ALLOWED_ORIGINS
        THEN notFound(<<"origin not allowed">>, 403)
        ELSE IF origin # NULL /\ method # NULL /\ headers # NULL
        THEN [status     |-> 200,
              statusText |-> << >>,
              headers    |-> [NoHeaders EXCEPT !["access-control-allow-method"] = method,
                                               !["access-control-allow-headers"] = headers,
                                               !["access-control-allow-origin"] = origin,
                                               !["access-control-allow-credentials"] = <<"true">>],
              body       |-> NULL]
        ELSE [status     |-> 200,
              statusText |-> << >>,
              headers    |-> [NoHeaders EXCEPT !["allow"] = <<"GET, HEAD, POST, OPTIONS">>],
              body       |-> NULL]

\* allowHeaders.join(","): the fixed names, then resp.headers.keys() without the
\* two encoding headers
RECURSIVE ExposeFrom(_, _)
ExposeFrom(h, i) ==
    IF i > Len(RespNameOrder) THEN << >>
    ELSE LET n == RespNameOrder[i]
         IN  (IF h[n] = NULL \/ n \in {"transfer-encoding", "content-encoding"}
              THEN << >> ELSE <<",", n>>) \o ExposeFrom(h, i + 1)

ExposeHeaders(resp) ==
    <<"x-redirect-status", ",", "x-redirect-statusText", ",", "X-Proxy-Set-Cookie", ",",
      "x-orig-location", ",", "x-orig-ts">> \o ExposeFrom(resp.headers, 1)

\* addCORSHeaders without its early return: Headers.set writes null as "null"
addCORSHeadersNoGuard(headers, request, resp) ==
    LET origin == request.headers["origin"]
    IN  [headers EXCEPT !["access-control-allow-origin"] =
                            IF origin = NULL THEN <<"n", "u", "l", "l">> ELSE origin,
                        !["access-control-allow-credentials"] = <<"true">>,
                        !["access-control-expose-headers"] = ExposeHeaders(resp)]

\* addCORSHeaders that leaves the Access-Control-Allow-Origin of the upstream
addCORSHeadersKeepUpstream(headers, request, resp) ==
    LET origin == request.headers["origin"]
    IN  IF ~Truthy(origin) THEN headers
        ELSE [headers EXCEPT !["access-control-allow-origin"] =
                                 IF headers["access-control-allow-origin"] = NULL
                                 THEN origin ELSE headers["access-control-allow-origin"],
                             !["access-control-allow-credentials"] = <<"true">>,
                             !["access-control-expose-headers"] = ExposeHeaders(resp)]

\* addCORSHeaders(headers, request, resp): the headers it leaves in `headers`
addCORSHeaders(headers, request, resp) ==
    LET origin == request.headers["origin"]
    IN  IF ~Truthy(origin) THEN headers
        ELSE [headers EXCEPT !["access-control-allow-origin"] = origin,
                             !["access-control-allow-credentials"] = <<"true">>,
                             !["access-control-expose-headers"] = ExposeHeaders(resp)]

\* the body chosen without a look at memento-datetime
RespBodyNoMarker(status, resp) ==
    IF status >= 400 THEN ErrorBody(status) ELSE resp.body

\* handleLiveWebProxy, lines 124-130: the body of the response
RespBody(status, resp) ==
    IF status >= 400 /\ ~Truthy(resp.headers["memento-datetime"])
    THEN ErrorBody(status)
    ELSE resp.body

\* handleLiveWebProxy, lines 96-132: the response made of what fetchWithRedirCheck returned
ComposeResponse(request, resp) ==
    LET h0 == [n \in OutNames |-> IF n \in RespNames THEN resp.headers[n] ELSE NULL]
        h1 == IF Truthy(resp.headers["set-cookie"])
              THEN [h0 EXCEPT !["x-proxy-set-cookie"] = resp.headers["set-cookie"]]
              ELSE h0
        redirect == resp.status \in RedirectStatuses
        h2 == IF redirect
              THEN [h1 EXCEPT !["x-redirect-status"] = NumToString(resp.status),
                              !["x-redirect-statustext"] = resp.statusText]
              ELSE h1
        h3 == IF redirect /\ Truthy(resp.headers["location"])
              THEN [h2 EXCEPT !["x-orig-location"] = resp.headers["location"]]
              ELSE IF redirect /\ Truthy(resp.location)
              THEN [h2 EXCEPT !["x-orig-location"] = resp.location]
              ELSE h2
        h4 == IF redirect /\ Truthy(resp.ts) THEN [h3 EXCEPT !["x-orig-ts"] = resp.ts] ELSE h3
        status == IF redirect THEN 200 ELSE resp.status
        h5 == addCORSHeaders(h4, request, resp)
        respBody == RespBody(status, resp)
    IN  [status |-> status, statusText |-> resp.statusText, headers |-> h5, body |-> respBody]

\* handleLiveWebProxy, lines 49-84: the headers of the outbound request; ok is
\* FALSE when new URL() throws on the referrer or on the target
PlatformNames == {"cf-ray"}                  \* the names that start with "cf-"
PywbNames     == {"x-pywb-requested-with"}   \* the names that start with "x-pywb-"

TranslateHeaders(request, proxyUrl) ==
    LET h0 == [n \in ProxyNames |->
                 IF n \in ReqNames /\ n \notin PlatformNames \cup PywbNames \cup {"x-proxy-referer"}
                 THEN request.headers[n] ELSE NULL]
        referrer == request.headers["x-proxy-referer"]
        origin   == URL(referrer).origin
        h1 == IF ~Truthy(referrer) THEN h0
              ELSE IF origin # URL(proxyUrl).origin
              THEN [h0 EXCEPT !["referer"] = referrer, !["origin"] = origin,
                              !["sec-fetch-site"] = <<"cross-origin">>]
              ELSE [h0 EXCEPT !["referer"] = referrer, !["origin"] = NULL,
                              !["sec-fetch-site"] = <<"same-origin">>]
        ua == request.headers["x-proxy-user-agent"]
        h2 == IF Truthy(ua)
              THEN [h1 EXCEPT !["x-proxy-user-agent"] = NULL, !["user-agent"] = ua]
              ELSE h1
        h3 == [h2 EXCEPT !["host"] = NULL]
        cookie == request.headers["x-proxy-cookie"]
        h4 == IF Truthy(cookie) THEN [h3 EXCEPT !["cookie"] = cookie] ELSE h3
    IN  [ok      |-> ~Truthy(referrer) \/ (URL(referrer).ok /\ URL(proxyUrl).ok),
         headers |-> h4]

\* handleRequest, lines 24-34, and handleLiveWebProxy, lines 45-47: the target of
\* the proxy request; NULL when url.split(...)[1] is undefined and .slice throws
ProxyTarget(request) ==
    LET url  == FixSingleSlash(request.url)
        host == request.headers["host"]
        pathWithQuery == SplitSecond(url, IF Truthy(host) THEN host ELSE << >>)
        proxyUrl == Slice(pathWithQuery, Len(ProxyPrefix))
    IN  IF pathWithQuery = NULL THEN NULL
        ELSE IF StartsWith(proxyUrl, <<"/", "/">>) THEN HTTPS \o proxyUrl
        ELSE proxyUrl

\* handleRequest, lines 24-32: requestPath.startsWith("/proxy/")
IsProxyPath(request) ==
    StartsWith(URL(FixSingleSlash(request.url)).pathname, ProxyPrefix)

\* line 238 with >= 300
IsRedirectFrom300(status) == status >= 300 /\ status < 400 /\ status # 304

\* fetchWithRedirCheck, line 238: the statuses whose Location is looked at
IsRedirect(status) == status > 300 /\ status < 400 /\ status # 304

\* lines 242-249 comparing group 1, the timestamps, where the code compares group 2
SameCaptureByTs(url, location) ==
    LET m  == TS_URL(location)
        m2 == TS_URL(url)
    IN  m.ok /\ m2.ok /\ m.ts = m2.ts

\* fetchWithRedirCheck, lines 242-249: both match TS_URL and capture the same URL
SameCapture(url, location) ==
    LET m  == TS_URL(location)
        m2 == TS_URL(url)
    IN  m.ok /\ m2.ok /\ m.url = m2.url

\* line 258 without the test of noHttps
HttpsUpgradeAlways(noHttps, location) ==
    StartsWith(location, HTTPS \o <<"/", "/">>)

\* fetchWithRedirCheck, line 258
HttpsUpgrade(noHttps, location) ==
    Truthy(noHttps) /\ StartsWith(location, HTTPS \o <<"/", "/">>)

\* fetchWithRedirCheck, lines 251-256: resp.location and resp.ts
Annotate(r, location) ==
    LET m == TS_URL(location)
    IN  IF m.ok THEN [r EXCEPT !.location = m.url, !.ts = m.ts] ELSE r

\* fetchWithRedirCheck, lines 238-265, on the response r of fetch(url): whether
\* the loop continues, with which url, and the response it holds
RedirCheck(url, r, noHttps) ==
    LET location == r.headers["location"]
    IN  IF IsRedirect(r.status) /\ Truthy(location)
        THEN IF SameCapture(url, location)
             THEN [follow |-> TRUE, url |-> location, resp |-> r]
             ELSE IF HttpsUpgrade(noHttps, location)
             THEN [follow |-> TRUE, url |-> location, resp |-> Annotate(r, location)]
             ELSE [follow |-> FALSE, url |-> url, resp |-> Annotate(r, location)]
        ELSE [follow |-> FALSE, url |-> url, resp |-> r]

\* ------------------------------------------------------------------------
\* State
\* ------------------------------------------------------------------------

VARIABLES
    request,        \* the inbound Request
    pc,             \* "start", "fetching" (awaiting fetch), "done" (returned), "threw"
    url,            \* fetchWithRedirCheck: url
    proxyHeaders,   \* the headers of the outbound request
    body,           \* the body of the outbound request
    noHttps,        \* fetchWithRedirCheck: noHttps
    resp,           \* fetchWithRedirCheck: resp, the last response fetch resolved to
    out,            \* the Response handleRequest returned
    nfetch          \* the number of calls of fetch, up to MaxFetches

vars == <<request, pc, url, proxyHeaders, body, noHttps, resp, out, nfetch>>

NoProxyHeaders == [n \in ProxyNames |-> NULL]

Init ==
    /\ request \in Requests
    /\ pc = "start"
    /\ url = NULL
    /\ proxyHeaders = NoProxyHeaders
    /\ body = NULL
    /\ noHttps = NULL
    /\ resp = NoResponse
    /\ out = NoOut
    /\ nfetch = 0

\* handleRequest, lines 28-30: an OPTIONS request
Options ==
    /\ pc = "start"
    /\ request.method = "OPTIONS"
    /\ out' = handleOptions(request)
    /\ pc' = "done"
    /\ UNCHANGED <<request, url, proxyHeaders, body, noHttps, resp, nfetch>>

\* handleRequest, line 37: any other path
NotFound ==
    /\ pc = "start"
    /\ request.method # "OPTIONS"
    /\ ~IsProxyPath(request)
    /\ out' = notFound(<<"not found">>, 404)
    /\ pc' = "done"
    /\ UNCHANGED <<request, url, proxyHeaders, body, noHttps, resp, nfetch>>

\* a TypeError before fetch is called, or thrown by the first call of fetch
ProxyThrows(request_) ==
    LET proxyUrl == ProxyTarget(request_)
    IN  \/ proxyUrl = NULL
        \/ ~TranslateHeaders(request_, proxyUrl).ok
        \/ ~URL(proxyUrl).ok

\* handleRequest, lines 32-35, and handleLiveWebProxy up to the first await
\* of fetch, line 230
ProxyStart ==
    /\ pc = "start"
    /\ request.method # "OPTIONS"
    /\ IsProxyPath(request)
    /\ ~ProxyThrows(request)
    /\ LET proxyUrl == ProxyTarget(request)
           headers  == TranslateHeaders(request, proxyUrl).headers
       IN  /\ url' = proxyUrl
           /\ noHttps' = headers["x-owt-no-https"]
           /\ proxyHeaders' = IF Truthy(headers["x-owt-no-https"])
                              THEN [headers EXCEPT !["x-owt-no-https"] = NULL]
                              ELSE headers
    /\ body' = IF request.method \in {"GET", "HEAD"} THEN NULL ELSE request.body
    /\ nfetch' = 1
    /\ pc' = "fetching"
    /\ UNCHANGED <<request, resp, out>>

\* the same, when it throws: the promise of handleRequest rejects
ProxyThrow ==
    /\ pc = "start"
    /\ request.method # "OPTIONS"
    /\ IsProxyPath(request)
    /\ ProxyThrows(request)
    /\ pc' = "threw"
    /\ UNCHANGED <<request, url, proxyHeaders, body, noHttps, resp, out, nfetch>>

\* fetchWithRedirCheck, lines 230-262: fetch resolves to r and the loop continues
FetchFollow ==
    /\ pc = "fetching"
    /\ \E r \in Responses : \E c \in {RedirCheck(url, r, noHttps)} :
         /\ c.follow
         /\ url' = c.url
         /\ resp' = c.resp
    /\ nfetch' = IF nfetch < MaxFetches THEN nfetch + 1 ELSE nfetch
    /\ UNCHANGED <<request, pc, proxyHeaders, body, noHttps, out>>

\* the loop without the break of line 265: fetch is called again after a response
\* that is not followed
FetchReturnNoBreak ==
    /\ pc = "fetching"
    /\ \E r \in Responses : \E c \in {RedirCheck(url, r, noHttps)} :
         /\ ~c.follow
         /\ resp' = c.resp
    /\ nfetch' = IF nfetch < MaxFetches THEN nfetch + 1 ELSE nfetch
    /\ UNCHANGED <<request, pc, url, proxyHeaders, body, noHttps, out>>

\* fetchWithRedirCheck, lines 230-268: fetch resolves to r and the loop ends;
\* handleLiveWebProxy, lines 96-132: the response is returned
FetchReturn ==
    /\ pc = "fetching"
    /\ \E r \in Responses : \E c \in {RedirCheck(url, r, noHttps)} :
         /\ ~c.follow
         /\ resp' = c.resp
         /\ out' = ComposeResponse(request, c.resp)
    /\ pc' = "done"
    /\ UNCHANGED <<request, url, proxyHeaders, body, noHttps, nfetch>>

Next == Options \/ NotFound \/ ProxyStart \/ ProxyThrow \/ FetchFollow \/ FetchReturn

Spec == Init /\ [][Next]_vars

\* the requests that differ from BaseHeaders in at most one header, one of those
\* that decide whether and how often fetch is called
FairInit ==
    /\ Init
    /\ request.headers \in ChangeHeader({BaseHeaders})
    /\ \A n \in ReqNames \ {"host", "origin", "x-owt-no-https", "x-proxy-referer"} :
           request.headers[n] = BaseHeaders[n]

\* every call of fetch resolves
FairSpec == FairInit /\ [][Next]_vars /\ WF_vars(FetchReturn \/ FetchFollow)

TypeOK ==
    /\ pc \in {"start", "fetching", "done", "threw"}
    /\ nfetch \in 0..MaxFetches

\* ------------------------------------------------------------------------
\* Properties
\* ------------------------------------------------------------------------

\* a non-OPTIONS request whose path starts with /proxy/
Proxied == request.method # "OPTIONS" /\ IsProxyPath(request)

ACAO == "access-control-allow-origin"
ACAC == "access-control-allow-credentials"

\* C1: an inbound X-Proxy-Cookie: v (v not empty) gives every outbound fetch
\* Cookie: v, and the outbound headers do not contain X-Proxy-Cookie.
C1_CookieTranslated ==
    (pc = "fetching" /\ Truthy(request.headers["x-proxy-cookie"]))
        => /\ proxyHeaders["cookie"] = request.headers["x-proxy-cookie"]
           /\ proxyHeaders["x-proxy-cookie"] = NULL

\* C2 as stated: a request without an Origin header gets a response without
\* Access-Control-Allow-Origin, whatever the upstream sent.
C2_NoOriginNoAllowOrigin ==
    (pc = "done" /\ request.headers["origin"] = NULL) => out.headers[ACAO] = NULL

\* C2: for a request without an Origin header the worker adds no
\* Access-Control-Allow-Origin of its own: a proxied response carries the one of
\* the upstream response it is made of, if any, and the responses to OPTIONS and
\* to other paths carry none.
C2_NoOriginNoAddedAllowOrigin ==
    (pc = "done" /\ request.headers["origin"] = NULL)
        => out.headers[ACAO] = (IF Proxied THEN resp.headers[ACAO] ELSE NULL)

C2_Witness ==
    /\ pc = "done" /\ Proxied
    /\ request.headers["origin"] = NULL
    /\ resp.headers[ACAO] = <<"*">>
    /\ out.headers[ACAO] = <<"*">>

\* C3 as stated: every request to handleRequest with Origin: o (o not empty)
\* gets Access-Control-Allow-Origin: o and Access-Control-Allow-Credentials: true.
C3_OriginReflectedAlways ==
    (pc = "done" /\ Truthy(request.headers["origin"]))
        => /\ out.headers[ACAO] = request.headers["origin"]
           /\ out.headers[ACAC] = <<"true">>

\* C3: every non-OPTIONS request under /proxy/ with a non-empty Origin: o that
\* gets a response gets Access-Control-Allow-Origin: o, whatever the upstream
\* sent, and Access-Control-Allow-Credentials: true.
C3_OriginReflectedWhenProxied ==
    (pc = "done" /\ Proxied /\ Truthy(request.headers["origin"]))
        => /\ out.headers[ACAO] = request.headers["origin"]
           /\ out.headers[ACAC] = <<"true">>

C3_Witness ==
    /\ pc = "done" /\ Proxied
    /\ request.headers["origin"] = EvilOrigin
    /\ resp.headers[ACAO] = <<"*">>
    /\ out.headers[ACAO] = EvilOrigin
    /\ out.headers[ACAC] = <<"true">>

\* the response of the first fetch, of a target that does not match TS_URL, is a
\* redirect whose Location L does not match it either
C4_Case ==
    /\ pc = "fetching" /\ nfetch = 1
    /\ ~TS_URL(url).ok
    /\ resp'.status \in RedirectStatuses
    /\ resp'.headers["location"] # NULL
    /\ ~TS_URL(resp'.headers["location"]).ok

\* no further fetch; status 200, x-redirect-status and x-orig-location
C4_Surfaced ==
    /\ pc' = "done" /\ nfetch' = 1
    /\ out'.status = 200
    /\ out'.headers["x-redirect-status"] = NumToString(resp'.status)
    /\ out'.headers["x-orig-location"] = resp'.headers["location"]

\* C4 as stated: in that case there is exactly one fetch and the response has
\* status 200, x-redirect-status and x-orig-location: L.
C4_RedirectSurfacedAlways == [][C4_Case => C4_Surfaced]_vars

\* C4: the same, when L is not empty and unless the request carries a non-empty
\* X-OWT-No-HTTPS and L starts with https://.
C4_RedirectSurfaced ==
    [][(/\ C4_Case
        /\ resp'.headers["location"] # << >>
        /\ ~(/\ Truthy(request.headers["x-owt-no-https"])
             /\ StartsWith(resp'.headers["location"], HTTPS \o <<"/", "/">>)))
       => C4_Surfaced]_vars

C4_Witness ==
    /\ pc = "done" /\ nfetch = 1
    /\ url = PageA
    /\ resp.status = 302
    /\ resp.headers["location"] = PageB
    /\ out.status = 200
    /\ out.headers["x-orig-location"] = PageB

\* the response just fetched is a redirect to another capture of the URL that
\* the target is a capture of
C5_Case ==
    /\ pc = "fetching"
    /\ resp'.status \in RedirectStatuses
    /\ TS_URL(resp'.headers["location"]).ok
    /\ TS_URL(url).ok
    /\ TS_URL(resp'.headers["location"]).url = TS_URL(url).url

\* what a response of the worker says of a redirect, from the response r alone
C5_FromLast(r) ==
    LET redirect == r.status \in RedirectStatuses
        location == r.headers["location"]
    IN  /\ out.status = (IF redirect THEN 200 ELSE r.status)
        /\ out.headers["x-redirect-status"] = (IF redirect THEN NumToString(r.status) ELSE NULL)
        /\ out.headers["x-orig-location"] = (IF redirect /\ Truthy(location) THEN location ELSE NULL)
        /\ out.headers["x-orig-ts"] =
               (IF redirect /\ TS_URL(location).ok THEN TS_URL(location).ts ELSE NULL)

\* C5: a redirect between two captures of the same URL is followed (the target
\* becomes its Location, fetch is called again, nothing is returned), and the
\* status, x-redirect-status, x-orig-location and x-orig-ts of the response
\* come from the last response fetched, which is never such a redirect.
C5_ArchiveRedirectFollowed ==
    /\ [][C5_Case => /\ pc' = "fetching"
                     /\ url' = resp'.headers["location"]
                     /\ nfetch' = (IF nfetch < MaxFetches THEN nfetch + 1 ELSE nfetch)
                     /\ out' = NoOut]_vars
    /\ []((pc = "done" /\ Proxied)
            => /\ C5_FromLast(resp)
               /\ ~(/\ resp.status \in RedirectStatuses
                    /\ TS_URL(resp.headers["location"]).ok
                    /\ TS_URL(url).ok
                    /\ TS_URL(resp.headers["location"]).url = TS_URL(url).url))

C5_Witness ==
    /\ pc = "done" /\ nfetch = 2
    /\ ~Truthy(request.headers["x-owt-no-https"])
    /\ url = Capture2A
    /\ resp.status = 200
    /\ out.status = 200
    /\ out.headers["x-orig-ts"] = NULL

\* C6 as stated: the body is the error text when the outgoing status is at
\* least 400 and the upstream response has no memento-datetime header, and the
\* upstream body in every other case.
C6_ErrorBodyIffNoMarker ==
    (pc = "done" /\ Proxied)
        => IF out.status >= 400 /\ resp.headers["memento-datetime"] = NULL
           THEN out.body = ErrorBody(out.status) /\ out.status = resp.status
           ELSE out.body = resp.body

\* C6: the same, with an empty memento-datetime header counting as none.
C6_ErrorBodyIffNoMarkerValue ==
    (pc = "done" /\ Proxied)
        => IF out.status >= 400 /\ resp.headers["memento-datetime"] \in {NULL, << >>}
           THEN out.body = ErrorBody(out.status) /\ out.status = resp.status
           ELSE out.body = resp.body

C6_Witness ==
    /\ pc = "done" /\ Proxied
    /\ resp.status = 404
    /\ resp.headers["memento-datetime"] = NULL
    /\ out.status = 404
    /\ out.body = ErrorBody(404)

\* C7 as stated: once fetchWithRedirCheck is called, the handling of the request
\* ends, whatever the upstream answers.
C7_Terminates == (pc = "fetching") ~> (pc \in {"done", "threw"})

\* C7: a request gets at most one response, which is never replaced; every
\* fetch that resolves either is a followed redirect or ends the handling with the
\* response; and the handling ends unless the upstream answers with followed
\* redirects forever: the loop has no bound.
C7_EndsUnlessFollowedForever ==
    /\ [](out # NoOut <=> pc = "done")
    /\ [][out # NoOut => out' = out]_vars
    /\ [][pc = "fetching" => (pc' = "done" /\ out' # NoOut) \/ FetchFollow]_vars
    /\ <>[](pc = "fetching") => []<><<FetchFollow>>_vars

C7_Witness ==
    /\ pc = "done" /\ nfetch = MaxFetches
    /\ out # NoOut
    /\ resp.status = 404

\* everything after the /proxy/ prefix of request.url, "https:" put before "//"
C8_Rest ==
    LET rest == Slice(request.url, Len(Self) + Len(ProxyPrefix))
    IN  IF StartsWith(rest, <<"/", "/">>) THEN HTTPS \o rest ELSE rest

\* C8: the first fetch of a proxied request is of everything after the /proxy/
\* prefix of the raw URL, query string included (here for the requests whose
\* URL has no single-slash scheme to repair).
C8_TargetIsRestOfURL ==
    (Proxied /\ nfetch = 1 /\ FixSingleSlash(request.url) = request.url) => url = C8_Rest

\* C9: no response carries Access-Control-Allow-Origin equal to an origin that
\* is not in CORS_ALLOWED_ORIGINS, and an OPTIONS request with such an origin
\* gets 403 and {"error":"origin not allowed"}.
C9_OnlyListedOrigins ==
    (pc = "done" /\ Truthy(request.headers["origin"])
                 /\ request.headers["origin"] \notin CORS_ALLOWED_ORIGINS)
        => /\ out.headers[ACAO] # request.headers["origin"]
           /\ request.method = "OPTIONS"
                => /\ out.status = 403
                   /\ out.body = <<"{\"error\":\"", "origin not allowed", "\"}">>

\* the loop ends with the response just fetched, returned as fetch gave it
C10_Returned ==
    /\ pc' = "done"
    /\ resp'.location = NULL /\ resp'.ts = NULL
    /\ out'.status = resp'.status

\* C10 as stated: fetch is called again only after a 301, 302, 303, 307 or 308,
\* and any other status ends the loop.
C10_OnlyListedStatusesFollowed ==
    [][(pc = "fetching" /\ resp'.status \notin RedirectStatuses) => C10_Returned]_vars

\* C10: fetch is called again only after a status from 301 to 399 other than
\* 304; any other status ends the loop, whatever the Location and X-OWT-No-HTTPS.
C10_Only3xxFollowed ==
    [][(pc = "fetching" /\ ~(resp'.status \in 301..399 /\ resp'.status # 304)) => C10_Returned]_vars

C10_Witness ==
    /\ pc = "done" /\ nfetch = 1
    /\ url = Capture1A
    /\ Truthy(request.headers["x-owt-no-https"])
    /\ resp.status = 300
    /\ resp.headers["location"] = Capture2A
    /\ out.status = 300

====
